---- MODULE Spec2Model ----
(***************************************************************************)
(* Model of the ascendapp internal operations tracker (src/app.py and      *)
(* src/create_admin.py): the relational tables, the request handlers that  *)
(* mutate them, and the role checks that gate those handlers.              *)
(*                                                                         *)
(* Conventions                                                             *)
(*  - A table is a sequence of rows; a row's primary key is its index      *)
(*    (autoincrement ids, and no handler deletes a row).  None is 0.       *)
(*  - A nullable integer column a form fills holds Null or Some(n), so     *)
(*    that the 0 a form can carry is not NULL.                             *)
(*  - A text form field is a sequence of tokens; the token " " is a blank  *)
(*    and every other token is a run of non-blank characters.  The empty   *)
(*    sequence is the empty string (also what a missing field defaults to).*)
(*  - A form field read as a number or a key is a record [kind, val]:       *)
(*    absent (not in the form), empty (""), blank (" "), num (the decimal  *)
(*    string of the integer val), real (the integer val written with a     *)
(*    fraction or an exponent, "1.0", "1e0") or text (no number).  Where a *)
(*    desk posts only absent, absent stands for the empty field too: the   *)
(*    handlers there read both alike.                                      *)
(*  - A DateTime is a natural number, the tick of the clock `now`.         *)
(***************************************************************************)
EXTENDS Integers, Sequences, FiniteSets, TLC

\* ---------------------------------------------------------------- bounds

MaxAdmins == 1
MaxUsers == 2
MaxCards == 2
MaxLogs == 2
MaxPending == 2
MaxTasks == 2
MaxEvents == 1
MaxSessions == 1
MaxPackages == 1
MaxAthletes == 2
MaxBookings == 2
MaxAllocations == 1
MaxTime == 4

\* ---------------------------------------------------------------- values

None == 0

Sp == " "

\* str.strip(): drop the leading and trailing blanks, keep the inner ones.
RECURSIVE LStrip(_)
LStrip(s) == IF s # <<>> /\ Head(s) = Sp THEN LStrip(Tail(s)) ELSE s

RECURSIVE RStrip(_)
RStrip(s) ==
    IF s # <<>> /\ s[Len(s)] = Sp THEN RStrip(SubSeq(s, 1, Len(s) - 1)) ELSE s

Strip(s) == RStrip(LStrip(s))

\* str.lower() on the tokens the model uses.
LowerTok(t) == IF t = "B@X" THEN "b@x" ELSE IF t = "A@X" THEN "a@x" ELSE t

Lower(s) == [i \in 1..Len(s) |-> LowerTok(s[i])]

\* Form fields read as numbers or keys.
Absent == [kind |-> "absent", val |-> 0]
Empty == [kind |-> "empty", val |-> 0]
Blank == [kind |-> "blank", val |-> 0]
Num(n) == [kind |-> "num", val |-> n]
Real(n) == [kind |-> "real", val |-> n]
Junk == [kind |-> "text", val |-> 0]

\* bool(field) of a raw form string: a non-empty string is truthy (None, the
\* missing field, is not).
Truthy(f) == f.kind \notin {"absent", "empty"}

\* request.form.get(name, "").strip() of such a field: the missing field
\* defaults to "", and a blank one strips to "".
StripField(f) == IF f.kind \in {"absent", "blank"} THEN Empty ELSE f

\* int(field): the number the string denotes (negative ones and zero
\* included); on any other string ("", " ", "1.0", "abc") int() raises
\* ValueError.
IsInt(f) == f.kind = "num"
IntOf(f) == f.val

\* The value a commit leaves in a column: the value of the request's copy
\* when the handler changed it, the stored one when the copy still holds the
\* value loaded (the UPDATE names only the columns that changed).
Written(copy, loaded, stored) == IF copy # loaded THEN copy ELSE stored

\* request.form.get(name, type=int): the number, or None when the field is
\* missing or does not parse.
FormInt(f) == IF f.kind = "num" THEN f.val ELSE None

\* werkzeug's password hash: salted and one-way; all the program observes is
\* that check_password_hash accepts exactly the password that was hashed.
generate_password_hash(p) == [digest_of |-> p]
check_password_hash(h, p) == h.digest_of = p

\* ---------------------------------------------------------------- state

VARIABLES
    backend,            \* "sqlite" or "postgres" (SQLALCHEMY_DATABASE_URI)
    users,              \* table users
    logged_in,          \* per browser, the user of its login session or None
    events,             \* table events
    sessions,           \* table sessions
    packages,           \* table packages
    athletes,           \* table athletes
    athlete_sessions,   \* table athlete_sessions
    sd_cards,           \* table sd_cards
    sd_card_logs,       \* table sd_card_logs
    manpower_allocations, \* table manpower_allocations
    edit_tasks,         \* table edit_tasks
    now,                \* the next value datetime.utcnow() returns
    request,            \* the request handled last
    response,           \* its response: status code and flashed message
    pending             \* requests between their read and their commit

vars == <<backend, users, logged_in, events, sessions, packages, athletes,
          athlete_sessions, sd_cards, sd_card_logs, manpower_allocations,
          edit_tasks, now, request, response, pending>>

userTables == <<users, logged_in>>
eventTables == <<events, sessions, packages>>
bookingTables == <<athletes, athlete_sessions>>
cardTables == <<sd_cards, sd_card_logs>>
otherTables == <<manpower_allocations, edit_tasks>>

\* The database engine: SQLite (the fallback URI) does not enforce foreign
\* keys and reads a key string as the number it looks like; Postgres
\* enforces foreign keys and rejects a key string that is no integer.
Backends == {"sqlite", "postgres"}
EnforcesForeignKeys == backend = "postgres"

\* A nullable integer column: NULL, or the integer stored.
Null == <<>>
Some(n) == <<n>>

\* An optional integer field (a card's capacity, the context ids of a
\* checkout): int(x) if x else None.
OptInt(f) == IF Truthy(f) THEN Some(IntOf(f)) ELSE Null

\* A foreign key value is acceptable to the engine: any integer where foreign
\* keys are not enforced, the id of a row where they are.
FkOk(table, id) == ~EnforcesForeignKeys \/ id \in 1..Len(table)

\* The same for a nullable column: NULL references nothing and is accepted.
FkOkOrNull(table, k) == k = Null \/ FkOk(table, k[1])

\* ---------------------------------------------------------------- responses

Flash(msg, cat) == [code |-> 302, flash |-> msg, category |-> cat]
Redirect == [code |-> 302, flash |-> "", category |-> ""]
Forbidden == [code |-> 403, flash |-> "", category |-> ""]
ServerError == [code |-> 500, flash |-> "", category |-> ""]
Printed(msg) == [code |-> 0, flash |-> msg, category |-> "stdout"]
Rendered == [code |-> 200, flash |-> "", category |-> ""]
RenderedWith(msg, cat) == [code |-> 200, flash |-> msg, category |-> cat]
LoginRedirect ==
    [code |-> 302, flash |-> "Please log in to access this page.", category |-> "message"]
\* The script dies of an uncaught database error: a traceback, no message.
Traceback == [code |-> 1, flash |-> "", category |-> "stderr"]

\* ---------------------------------------------------------------- callers

Anonymous == None

\* A login session is a signed cookie a browser keeps: each browser holds the
\* session of at most one user, and one user may hold sessions in several.
Browsers == {"f", "g"}
OneBrowser == {"f"}

\* The users holding a login session in some browser.
LoggedIn == {logged_in[b] : b \in Browsers} \ {Anonymous}

\* Who may send a request: a user holding a login session, or nobody.
Callers == LoggedIn \cup {Anonymous}

is_authenticated(u) == u # Anonymous

IsFounder(u) == users[u].role = <<"founder">>

\* founder_required: abort(403) unless the caller is an authenticated founder.
founder_requiredMut(u) == is_authenticated(u)
founder_required(u) == is_authenticated(u) /\ IsFounder(u)

\* The request handled last: the endpoint, the form's action, the caller, the
\* key the form names (Absent when it names none) and its other fields.
Req(endpoint, action, u, id, form) ==
    [endpoint |-> endpoint, action |-> action, user |-> u, id |-> id,
     form |-> form]

NoForm == [none |-> TRUE]

\* A request that has read the rows it decides on and has not committed yet:
\* the worker's own copy of what it read.  op names the handler, key and key2
\* the ids posted, row the row found (None: no row), ok the handler's
\* decision to write, flag a boolean it read or was sent, stamp the time it
\* took, text the text fields posted.
InFlight(rid, op, u, key, key2, row, ok, flag, stamp, text) ==
    [rid |-> rid, op |-> op, user |-> u, key |-> key, key2 |-> key2, row |-> row,
     ok |-> ok, flag |-> flag, stamp |-> stamp, text |-> text]

PendingOf(op) == {p \in pending : p.op = op}

\* The requests that have sent a write to the engine and not committed it
\* (a return between line 314 and line 316).  The write is not visible to
\* other requests before the commit, and the engine holds a lock for it: on
\* SQLite the write lock of the database file, so that every other write waits
\* and fails with "database is locked" when the wait times out; on Postgres
\* the lock of the row written, so that another write to that row waits for
\* the commit.  Waiting is the request taking its step later.
Flushed == {q \in pending : q.op = "return" /\ q.flag}
DatabaseLocked == backend = "sqlite" /\ Flushed # {}
RowLocked(log) == backend = "postgres" /\ \E q \in Flushed : q.row = log
\* The number the next request in flight gets: the lowest one not in use
\* (none while MaxPending requests are in flight).
FreeRids ==
    LET free == {rid \in 1..MaxPending : \A p \in pending : p.rid # rid}
    IN  {rid \in free : \A other \in free : rid <= other}

\* ---------------------------------------------------------------- Init

Init ==
    /\ backend \in Backends
    /\ users = <<>>
    /\ logged_in = [b \in Browsers |-> Anonymous]
    /\ events = <<>>
    /\ sessions = <<>>
    /\ packages = <<>>
    /\ athletes = <<>>
    /\ athlete_sessions = <<>>
    /\ sd_cards = <<>>
    /\ sd_card_logs = <<>>
    /\ manpower_allocations = <<>>
    /\ edit_tasks = <<>>
    /\ now = 1
    /\ request = Req("none", "", Anonymous, Absent, NoForm)
    /\ response = Redirect
    /\ pending = {}

\* datetime.utcnow(): the clock is read by the handlers that stamp a row, and
\* every reading is later than the one before.  A request that stamps a row is
\* taken only while the clock stays within the model's horizon MaxTime.

\* ---------------------------------------------------------------- users

\* User.query.filter_by(email=email).first(): the id of the first match.
UserByEmailMut(email) == None
UserByEmail(email) ==
    LET hits == {i \in 1..Len(users) : users[i].email = email}
    IN IF hits = {} THEN None ELSE CHOOSE i \in hits : \A j \in hits : i <= j

EmailInputs == {<<"a@x">>, <<Sp, "B@X">>}
NameInputs == {<<"Ann">>}
PasswordInputs == {<<"pw">>}

\* create_admin.py: create the initial founder unless the email is taken.
create_admin(email_in, name_in, password) ==
    LET email == Lower(Strip(email_in))
        name == Strip(name_in)
    IN  /\ request' = Req("create_admin", "", Anonymous, Absent,
                          [email |-> email_in])
        /\ IF UserByEmail(email) # None
           THEN /\ response' = Printed("User with that email already exists.")
                /\ UNCHANGED users
           ELSE IF DatabaseLocked
           THEN response' = Traceback /\ UNCHANGED users
           ELSE /\ users' = Append(users,
                      [name |-> name, email |-> email, role |-> <<"founder">>,
                       active |-> TRUE,
                       password_hash |-> generate_password_hash(password)])
                /\ response' = Printed("Founder user created.")
        /\ UNCHANGED <<backend, logged_in, eventTables, bookingTables, cardTables,
                       otherTables, now, pending>>

\* A run of the bootstrap script; a run that would add a row is taken only
\* while the users table holds fewer than MaxAdmins rows.
CreateAdminBy(Emails) ==
    \E e \in Emails, n \in NameInputs, p \in PasswordInputs :
        /\ (UserByEmail(Lower(Strip(e))) = None =>
               Len(users) < MaxAdmins)
        /\ create_admin(e, n, p)

CreateAdmin == CreateAdminBy(EmailInputs)

\* The script run, and rerun, for one founder.
OneFounder == {<<Sp, "B@X">>}

\* login(), posted from browser b: a browser that holds a session is sent to
\* the dashboard; otherwise an active user with the right password gets one.
login(b, email_in, password) ==
    LET email == Lower(Strip(email_in))
        hits == {i \in 1..Len(users) : users[i].email = email /\ users[i].active}
        user == IF hits = {} THEN None ELSE CHOOSE i \in hits : \A j \in hits : i <= j
    IN  /\ request' = Req("login", "", logged_in[b], Absent, NoForm)
        /\ IF is_authenticated(logged_in[b])
           THEN response' = Redirect /\ UNCHANGED logged_in
           ELSE IF user # None /\ check_password_hash(users[user].password_hash, password)
           THEN /\ logged_in' = [logged_in EXCEPT ![b] = user]
                /\ response' = Redirect
           ELSE \* the message is flashed and the login form rendered again
                /\ response' = RenderedWith("Invalid email or password", "danger")
                /\ UNCHANGED logged_in
        /\ UNCHANGED <<backend, users, eventTables, bookingTables, cardTables,
                       otherTables, now, pending>>

LoginAt(B) ==
    \E b \in B, e \in EmailInputs, p \in PasswordInputs \cup {<<"bad">>} :
        login(b, e, p)

Login == LoginAt(Browsers)

\* logout(), sent from browser b: the session of that browser ends; the
\* sessions the user holds in other browsers stay.
logout(b) ==
    /\ request' = Req("logout", "", logged_in[b], Absent, NoForm)
    /\ IF ~is_authenticated(logged_in[b])
       THEN response' = LoginRedirect /\ UNCHANGED logged_in
       ELSE /\ logged_in' = [logged_in EXCEPT ![b] = Anonymous]
            /\ response' = Redirect
    /\ UNCHANGED <<backend, users, eventTables, bookingTables, cardTables,
                   otherTables, now, pending>>

LogoutAt(B) == \E b \in B : logout(b)

Logout == LogoutAt(Browsers)

\* --- manage_users (founder_required) ----------------------------------------

RoleInputs == {<<"freelancer">>, <<"founder">>, <<"editor">>}
UserNameInputs == {<<"Sam">>, <<Sp>>}
UserIdInputs == {Absent, Num(1), Num(2)}

\* manage_users, action add_user.
manage_users_add_user(u, name_in, email_in, password, role, active) ==
    LET name == Strip(name_in)
        email == Lower(Strip(email_in))
    IN  /\ request' = Req("manage_users", "add_user", u, Absent,
                          [email |-> email_in])
        /\ IF ~is_authenticated(u)
           THEN response' = LoginRedirect /\ UNCHANGED users
           ELSE IF ~founder_required(u)
           THEN response' = Forbidden /\ UNCHANGED users
           ELSE IF name = <<>> \/ email = <<>> \/ password = <<>>
           THEN response' = Flash("Name, email and password are required", "danger")
                /\ UNCHANGED users
           ELSE IF UserByEmail(email) # None
           THEN response' = Flash("User with that email already exists", "danger")
                /\ UNCHANGED users
           ELSE /\ users' = Append(users,
                      [name |-> name, email |-> email, role |-> role,
                       active |-> active,
                       password_hash |-> generate_password_hash(password)])
                /\ response' = Flash("User created", "success")
        /\ UNCHANGED <<backend, logged_in, eventTables, bookingTables, cardTables,
                       otherTables, now, pending>>

\* manage_users, action toggle_active.
manage_users_toggle_active(u, user_in) ==
    LET user == IF FormInt(user_in) \in 1..Len(users) THEN FormInt(user_in) ELSE None
    IN  /\ request' = Req("manage_users", "toggle_active", u, user_in, NoForm)
        /\ IF ~is_authenticated(u)
           THEN response' = LoginRedirect /\ UNCHANGED users
           ELSE IF ~founder_required(u)
           THEN response' = Forbidden /\ UNCHANGED users
           ELSE IF user = None
           THEN response' = Flash("User not found", "danger") /\ UNCHANGED users
           ELSE /\ users' = [users EXCEPT ![user].active = ~@]
                /\ response' = Flash("User status updated", "success")
        /\ UNCHANGED <<backend, logged_in, eventTables, bookingTables, cardTables,
                       otherTables, now, pending>>

\* manage_users, action change_role.
manage_users_change_role(u, user_in, role_in) ==
    LET user == IF FormInt(user_in) \in 1..Len(users) THEN FormInt(user_in) ELSE None
        new_role == Strip(role_in)
    IN  /\ request' = Req("manage_users", "change_role", u, user_in, NoForm)
        /\ IF ~is_authenticated(u)
           THEN response' = LoginRedirect /\ UNCHANGED users
           ELSE IF ~founder_required(u)
           THEN response' = Forbidden /\ UNCHANGED users
           ELSE IF user = None \/ new_role \notin {<<"founder">>, <<"freelancer">>}
           THEN response' = Flash("Could not change role", "danger") /\ UNCHANGED users
           ELSE /\ users' = [users EXCEPT ![user].role = new_role]
                /\ response' = Flash("User role updated", "success")
        /\ UNCHANGED <<backend, logged_in, eventTables, bookingTables, cardTables,
                       otherTables, now, pending>>

\* The forms a caller may post.  Each request below takes its caller from U
\* and its form from Forms, and is taken only while the table it may extend
\* stays within the model's bound.
UserForms ==
    [name : UserNameInputs, email : EmailInputs, password : PasswordInputs,
     role : RoleInputs, active : BOOLEAN]
FreelancerForms == {f \in UserForms : f.role = <<"freelancer">> /\ f.active}
RoleForms == [user_id : UserIdInputs, role : RoleInputs]

AddUserBy(U, Forms) ==
    \E u \in U, f \in Forms :
        /\ manage_users_add_user(u, f.name, f.email, f.password, f.role, f.active)
        /\ Len(users') <= MaxUsers

ToggleActiveBy(U, Ids) ==
    \E u \in U, i \in Ids : manage_users_toggle_active(u, i)

ChangeRoleBy(U, Forms) ==
    \E u \in U, f \in Forms : manage_users_change_role(u, f.user_id, f.role)

\* --- users when requests interleave -----------------------------------------
\* The script and add_user look the email up (create_admin.py line 11,
\* app.py line 689) and insert at commit (line 18, line 696); toggle_active
\* loads the user (line 701) and writes the negation of the value it loaded
\* at commit (line 704).  Another worker may commit in between; the unique
\* constraint on users.email (line 57) then fails the insert.

\* create_admin.py lines 7-11: read the input and look the email up.
create_admin_read(email_in, name_in, password, rid) ==
    LET existing == UserByEmail(Lower(Strip(email_in)))
    IN  /\ pending' = pending \cup
              {InFlight(rid, "create_admin", Anonymous, Absent, Absent, existing,
                        existing = None, FALSE, None,
                        <<email_in, name_in, password>>)}
        /\ UNCHANGED <<backend, userTables, eventTables, bookingTables, cardTables,
                       otherTables, now, request, response>>

\* create_admin.py lines 12-19: print the conflict, or insert and commit.
create_admin_commit(p) ==
    LET email == Lower(Strip(p.text[1]))
    IN  /\ pending' = pending \ {p}
        /\ request' = Req("create_admin", "", Anonymous, Absent,
                          [email |-> p.text[1]])
        /\ IF ~p.ok
           THEN /\ response' = Printed("User with that email already exists.")
                /\ UNCHANGED users
           ELSE IF UserByEmail(email) # None
           THEN response' = Traceback /\ UNCHANGED users
           ELSE /\ users' = Append(users,
                      [name |-> Strip(p.text[2]), email |-> email,
                       role |-> <<"founder">>, active |-> TRUE,
                       password_hash |-> generate_password_hash(p.text[3])])
                /\ response' = Printed("Founder user created.")
        /\ UNCHANGED <<backend, logged_in, eventTables, bookingTables, cardTables,
                       otherTables, now>>

CreateAdminRead ==
    \E e \in EmailInputs, n \in NameInputs, pw \in PasswordInputs, rid \in FreeRids :
        create_admin_read(e, n, pw, rid)

CreateAdminCommit ==
    \E p \in PendingOf("create_admin") :
        /\ create_admin_commit(p)
        /\ Len(users') <= MaxUsers

\* manage_users add_user, lines 680-689, for a founder who sent the required
\* fields: look the email up.
manage_users_add_user_read(u, name_in, email_in, password, role, active, rid) ==
    LET existing == UserByEmail(Lower(Strip(email_in)))
    IN  /\ is_authenticated(u) /\ founder_required(u)
        /\ Strip(name_in) # <<>> /\ Lower(Strip(email_in)) # <<>> /\ password # <<>>
        /\ pending' = pending \cup
              {InFlight(rid, "add_user", u, Absent, Absent, existing,
                        existing = None, active, None,
                        <<email_in, name_in, password, role>>)}
        /\ UNCHANGED <<backend, userTables, eventTables, bookingTables, cardTables,
                       otherTables, now, request, response>>

\* Lines 690-697: flash the conflict, or insert and commit.
manage_users_add_user_commit(p) ==
    LET email == Lower(Strip(p.text[1]))
    IN  /\ pending' = pending \ {p}
        /\ request' = Req("manage_users", "add_user", p.user, Absent,
                          [email |-> p.text[1]])
        /\ IF ~p.ok
           THEN /\ response' = Flash("User with that email already exists", "danger")
                /\ UNCHANGED users
           ELSE IF UserByEmail(email) # None
           THEN response' = ServerError /\ UNCHANGED users
           ELSE /\ users' = Append(users,
                      [name |-> Strip(p.text[2]), email |-> email,
                       role |-> p.text[4], active |-> p.flag,
                       password_hash |-> generate_password_hash(p.text[3])])
                /\ response' = Flash("User created", "success")
        /\ UNCHANGED <<backend, logged_in, eventTables, bookingTables, cardTables,
                       otherTables, now>>

AddUserRead(U, Forms) ==
    \E u \in U, f \in Forms, rid \in FreeRids :
        manage_users_add_user_read(u, f.name, f.email, f.password, f.role,
                                   f.active, rid)

AddUserCommit ==
    \E p \in PendingOf("add_user") :
        /\ manage_users_add_user_commit(p)
        /\ Len(users') <= MaxUsers

\* manage_users toggle_active, lines 700-701, for a founder: load the user.
manage_users_toggle_active_read(u, user_in, rid) ==
    LET user == IF FormInt(user_in) \in 1..Len(users) THEN FormInt(user_in) ELSE None
    IN  /\ is_authenticated(u) /\ founder_required(u)
        /\ pending' = pending \cup
              {InFlight(rid, "toggle_active", u, user_in, Absent, user,
                        user # None, user # None /\ users[user].active, None, <<>>)}
        /\ UNCHANGED <<backend, userTables, eventTables, bookingTables, cardTables,
                       otherTables, now, request, response>>

\* Lines 702-707: write the negation of the value loaded, or flash.
manage_users_toggle_active_commit(p) ==
    /\ pending' = pending \ {p}
    /\ request' = Req("manage_users", "toggle_active", p.user, p.key, NoForm)
    /\ IF p.ok
       THEN /\ users' = [users EXCEPT ![p.row].active = ~p.flag]
            /\ response' = Flash("User status updated", "success")
       ELSE /\ response' = Flash("User not found", "danger")
            /\ UNCHANGED users
    /\ UNCHANGED <<backend, logged_in, eventTables, bookingTables, cardTables,
                   otherTables, now>>

ToggleActiveRead(U, Ids) ==
    \E u \in U, i \in Ids, rid \in FreeRids :
        manage_users_toggle_active_read(u, i, rid)

ToggleActiveCommit ==
    \E p \in PendingOf("toggle_active") : manage_users_toggle_active_commit(p)

\* ---------------------------------------------------------------- SD cards

\* The engine rejects the key itself: Postgres compares the string with an
\* integer column and fails on every string that is not an integer, the
\* empty one included.  A missing field is the key None, which is compared
\* with IS NULL and finds no row.
KeyRejected(f) == backend = "postgres" /\ f.kind \in {"empty", "blank", "real", "text"}

\* Model.query.get(key) with the raw form string as the key: the row's id, or
\* None when the key names no row.  SQLite compares the string with the
\* integer column by numeric affinity, so "1.0" and "1e0" name row 1.
Get(table, f) ==
    IF /\ f.kind = "num" \/ (f.kind = "real" /\ backend = "sqlite")
       /\ f.val \in 1..Len(table)
    THEN f.val ELSE None

LabelInputs == {<<"SD-01">>, <<Sp, "SD-02">>, <<Sp>>}
CapacityInputs == {Blank, Num(64), Num(-1), Junk}
PurposeInputs == {<<"shoot">>}

LabelTaken(label) == \E i \in 1..Len(sd_cards) : sd_cards[i].label = label

\* sd_cards_view, action add_card.
sd_cards_view_add_card(u, label_in, capacity_in) ==
    LET label == Strip(label_in)
        capacity_gb == StripField(capacity_in)
        raises == Truthy(capacity_gb) /\ ~IsInt(capacity_gb)
    IN  /\ request' = Req("sd_cards_view", "add_card", u, Absent, NoForm)
        /\ IF ~is_authenticated(u)
           THEN response' = LoginRedirect /\ UNCHANGED sd_cards
           ELSE IF ~IsFounder(u)
           THEN \* no branch of the if/elif chain matches
                response' = Redirect /\ UNCHANGED sd_cards
           ELSE IF label = <<>>
           THEN response' = Flash("Label is required", "danger") /\ UNCHANGED sd_cards
           ELSE IF raises \/ DatabaseLocked \/ LabelTaken(label)
           THEN \* int() raises, or the INSERT fails: the database is locked
                \* or the unique constraint on label is violated
                response' = ServerError /\ UNCHANGED sd_cards
           ELSE /\ sd_cards' = Append(sd_cards,
                      [label |-> label, capacity_gb |-> OptInt(capacity_gb),
                       status |-> "available"])
                /\ response' = Flash("SD card added", "success")
        /\ UNCHANGED <<backend, userTables, eventTables, bookingTables, sd_card_logs,
                       otherTables, now, pending>>

\* Line 294: the card exists and is available.
CanCheckout(card) == card # None /\ sd_cards[card].status = "available"

\* Lines 295-304: the rows a successful checkout commits.
CardsAfterCheckout(card) == [sd_cards EXCEPT ![card].status = "checked_out"]

LogsAfterCheckout(card, u, event_id, session_id, purpose) ==
    Append(sd_card_logs,
           [sd_card_id |-> card, user_id |-> u, event_id |-> event_id,
            session_id |-> session_id, purpose |-> purpose,
            checked_out_at |-> now, returned_at |-> None])

\* Lines 298-299: int() raises on a context id, before anything is flushed.
CheckoutRaises(event_in, session_in) ==
    \/ Truthy(event_in) /\ ~IsInt(event_in)
    \/ Truthy(session_in) /\ ~IsInt(session_in)

\* Line 304: the INSERT of the log is rejected, a foreign key names no row.
\* The default of checked_out_at has read the clock by then.
CheckoutRejected(event_in, session_in) ==
    \/ ~FkOkOrNull(events, OptInt(event_in))
    \/ ~FkOkOrNull(sessions, OptInt(session_in))

\* sd_cards_view, action checkout, handled without interleaving.
sd_cards_view_checkout(u, card_in, event_in, session_in, purpose) ==
    LET card == Get(sd_cards, card_in)
    IN  /\ request' = Req("sd_cards_view", "checkout", u, card_in, NoForm)
        /\ IF ~is_authenticated(u)
           THEN response' = LoginRedirect /\ UNCHANGED <<cardTables, now>>
           ELSE IF KeyRejected(card_in)
           THEN response' = ServerError /\ UNCHANGED <<cardTables, now>>
           ELSE IF ~CanCheckout(card)
           THEN response' = Flash("Card not available", "danger")
                /\ UNCHANGED <<cardTables, now>>
           ELSE IF CheckoutRaises(event_in, session_in)
           THEN response' = ServerError /\ UNCHANGED <<cardTables, now>>
           ELSE IF CheckoutRejected(event_in, session_in)
           THEN /\ response' = ServerError
                /\ now' = now + 1
                /\ UNCHANGED cardTables
           ELSE /\ sd_cards' = CardsAfterCheckout(card)
                /\ sd_card_logs' = LogsAfterCheckout(card, u, OptInt(event_in),
                                                     OptInt(session_in), purpose)
                /\ now' = now + 1
                /\ response' = Flash("SD card checked out", "success")
        /\ UNCHANGED <<backend, userTables, eventTables, bookingTables, otherTables,
                       pending>>

\* Line 312: the log exists and is still open.
CanReturn(log) == log # None /\ sd_card_logs[log].returned_at = None

\* Line 313: close the log.
LogsAfterReturn(log, stamp) == [sd_card_logs EXCEPT ![log].returned_at = stamp]

\* Lines 314-316: free the card of the log.  `loaded` is the status the
\* request loaded at line 314; the commit writes the status only when the
\* assignment at line 315 changed the request's copy.
CardsAfterReturnMut(log, loaded) == sd_cards
CardsAfterReturn(log, loaded) ==
    [sd_cards EXCEPT ![sd_card_logs[log].sd_card_id].status =
                         Written("available", loaded, @)]

\* The status of the card of a log, as line 314 loads it.
CardStatusOf(log) == sd_cards[sd_card_logs[log].sd_card_id].status

\* sd_cards_view, action return, handled without interleaving.
sd_cards_view_return(u, log_in) ==
    LET log == Get(sd_card_logs, log_in)
    IN  /\ request' = Req("sd_cards_view", "return", u, log_in, NoForm)
        /\ IF ~is_authenticated(u)
           THEN response' = LoginRedirect /\ UNCHANGED <<cardTables, now>>
           ELSE IF KeyRejected(log_in)
           THEN response' = ServerError /\ UNCHANGED <<cardTables, now>>
           ELSE IF ~CanReturn(log)
           THEN response' = Flash("Could not return card", "danger")
                /\ UNCHANGED <<cardTables, now>>
           ELSE /\ sd_card_logs' = LogsAfterReturn(log, now)
                /\ sd_cards' = CardsAfterReturn(log, CardStatusOf(log))
                /\ now' = now + 1
                /\ response' = Flash("SD card returned", "success")
        /\ UNCHANGED <<backend, userTables, eventTables, bookingTables, otherTables,
                       pending>>

CardIdInputs == {Absent, Empty, Num(1), Num(2), Real(1), Junk}
LogIdInputs == {Absent, Empty, Num(1), Num(2), Real(1), Junk}
ContextIdInputs == {Absent, Num(0), Num(1), Junk}

CardForms == [label : LabelInputs, capacity_gb : CapacityInputs]
CheckoutForms ==
    [sd_card_id : CardIdInputs, event_id : ContextIdInputs, session_id : {Absent},
     purpose : PurposeInputs]

\* The one card on the stage of the desks that are not about adding cards.
StageCardForms == {f \in CardForms : f.label = <<"SD-01">> /\ f.capacity_gb = Num(64)}

AddCardBy(U, Forms) ==
    \E u \in U, f \in Forms :
        /\ sd_cards_view_add_card(u, f.label, f.capacity_gb)
        /\ Len(sd_cards') <= MaxCards

CheckoutBy(U, Forms) ==
    \E u \in U, f \in Forms :
        /\ sd_cards_view_checkout(u, f.sd_card_id, f.event_id, f.session_id, f.purpose)
        /\ Len(sd_card_logs') <= MaxLogs
        /\ now' <= MaxTime

ReturnBy(U, Ids) ==
    \E u \in U, l \in Ids :
        /\ sd_cards_view_return(u, l)
        /\ now' <= MaxTime

\* --- checkout when requests interleave --------------------------------------
\* Each request runs in its own worker with its own database session.  The
\* handler loads the card (line 293) and tests the status it loaded (line 294);
\* the commit (line 304) then writes UPDATE sd_cards SET status = ... WHERE id
\* = ... and INSERT INTO sd_card_logs.  Neither statement re-reads or locks the
\* status, so another request may commit between the two steps.  The racing
\* checkouts post the card id alone: no event, no session, no purpose.

\* Lines 288-294 and 306-307: load the card and decide on the loaded status;
\* a request that is refused is answered at once.
sd_cards_view_checkout_read(u, card_in, rid) ==
    LET card == Get(sd_cards, card_in)
        refused == ~is_authenticated(u) \/ KeyRejected(card_in) \/ ~CanCheckout(card)
    IN  /\ IF refused
           THEN /\ request' = Req("sd_cards_view", "checkout", u, card_in, NoForm)
                /\ response' = IF ~is_authenticated(u) THEN LoginRedirect
                                ELSE IF KeyRejected(card_in) THEN ServerError
                                ELSE Flash("Card not available", "danger")
                /\ UNCHANGED pending
           ELSE /\ pending' = pending \cup
                      {InFlight(rid, "checkout", u, card_in, Absent, card, TRUE,
                                FALSE, None, <<>>)}
                /\ UNCHANGED <<request, response>>
        /\ UNCHANGED <<backend, userTables, eventTables, bookingTables, cardTables,
                       otherTables, now>>

\* Lines 295-305: build the log, set the status on the copy and commit.
sd_cards_view_checkout_commit(p) ==
    /\ pending' = pending \ {p}
    /\ request' = Req("sd_cards_view", "checkout", p.user, p.key, NoForm)
    /\ IF DatabaseLocked
       THEN response' = ServerError /\ UNCHANGED <<cardTables, now>>
       ELSE /\ sd_cards' = CardsAfterCheckout(p.row)
            /\ sd_card_logs' = LogsAfterCheckout(p.row, p.user, Null, Null, <<>>)
            /\ response' = Flash("SD card checked out", "success")
            /\ now' = now + 1
    /\ UNCHANGED <<backend, userTables, eventTables, bookingTables, otherTables>>

CheckoutRead ==
    \E u \in Callers, c \in CardIdInputs, rid \in FreeRids :
        sd_cards_view_checkout_read(u, c, rid)

CheckoutCommit ==
    \E p \in PendingOf("checkout") :
        /\ sd_cards_view_checkout_commit(p)
        /\ Len(sd_card_logs') <= MaxLogs
        /\ now' <= MaxTime

\* --- return when requests interleave ----------------------------------------
\* The handler loads the log (line 311) and tests the returned_at it loaded
\* (line 312); it reads the clock into its copy (line 313); loading the card
\* (line 314) first flushes UPDATE sd_card_logs SET returned_at = ... WHERE id
\* = ... inside the request's transaction; line 315 sets the status on the
\* copy of the card and line 316 commits, with UPDATE sd_cards SET status =
\* ... when the copy changed.  No statement re-reads returned_at, and other
\* requests may take steps between any two of these.

\* Lines 310-312 and 318-319: load the log and decide on the returned_at
\* loaded; a request that is refused is answered at once.
sd_cards_view_return_read(u, log_in, rid) ==
    LET log == Get(sd_card_logs, log_in)
        refused == ~is_authenticated(u) \/ KeyRejected(log_in) \/ ~CanReturn(log)
    IN  /\ IF refused
           THEN /\ request' = Req("sd_cards_view", "return", u, log_in, NoForm)
                /\ response' = IF ~is_authenticated(u) THEN LoginRedirect
                                ELSE IF KeyRejected(log_in) THEN ServerError
                                ELSE Flash("Could not return card", "danger")
                /\ UNCHANGED pending
           ELSE /\ pending' = pending \cup
                      {InFlight(rid, "return", u, log_in, Absent, log, TRUE, FALSE,
                                None, <<>>)}
                /\ UNCHANGED <<request, response>>
        /\ UNCHANGED <<backend, userTables, eventTables, bookingTables, cardTables,
                       otherTables, now>>

\* Line 313: datetime.utcnow() into the request's copy of the log.
sd_cards_view_return_stamp(p) ==
    /\ p.stamp = None
    /\ pending' = (pending \ {p}) \cup {[p EXCEPT !.stamp = now]}
    /\ now' = now + 1
    /\ UNCHANGED <<backend, userTables, eventTables, bookingTables, cardTables,
                   otherTables, request, response>>

\* Line 314: flush the UPDATE of the log into the request's transaction and
\* load the card of the log, with the status stored at that moment.
sd_cards_view_return_flush(p) ==
    /\ p.stamp # None /\ ~p.flag
    /\ ~RowLocked(p.row)
    /\ IF DatabaseLocked
       THEN /\ pending' = pending \ {p}
            /\ request' = Req("sd_cards_view", "return", p.user, p.key, NoForm)
            /\ response' = ServerError
       ELSE /\ pending' = (pending \ {p}) \cup
                  {[p EXCEPT !.flag = TRUE, !.text = <<CardStatusOf(p.row)>>]}
            /\ UNCHANGED <<request, response>>
    /\ UNCHANGED <<backend, userTables, eventTables, bookingTables, cardTables,
                   otherTables, now>>

\* Lines 315-317: set the status on the copy of the card and commit the
\* transaction: the log's returned_at, and the card's status when it changed.
sd_cards_view_return_commit(p) ==
    /\ p.flag
    /\ pending' = pending \ {p}
    /\ request' = Req("sd_cards_view", "return", p.user, p.key, NoForm)
    /\ sd_card_logs' = LogsAfterReturn(p.row, p.stamp)
    /\ sd_cards' = CardsAfterReturn(p.row, p.text[1])
    /\ response' = Flash("SD card returned", "success")
    /\ UNCHANGED <<backend, userTables, eventTables, bookingTables, otherTables, now>>

ReturnRead ==
    \E u \in Callers, l \in LogIdInputs, rid \in FreeRids :
        sd_cards_view_return_read(u, l, rid)

ReturnStamp ==
    \E p \in PendingOf("return") :
        /\ sd_cards_view_return_stamp(p)
        /\ now' <= MaxTime

ReturnFlush == \E p \in PendingOf("return") : sd_cards_view_return_flush(p)

ReturnCommit == \E p \in PendingOf("return") : sd_cards_view_return_commit(p)

\* ---------------------------------------------------------------- events

\* A date form field: the text "y-m-d" (kind iso) or some other text.
Date(y, m, d) == [kind |-> "iso", y |-> y, m |-> m, d |-> d]
NotADate == [kind |-> "text", y |-> 0, m |-> 0, d |-> 0]
NoDate == [kind |-> "empty", y |-> 0, m |-> 0, d |-> 0]

DaysIn(y, m) ==
    IF m \in {4, 6, 9, 11} THEN 30
    ELSE IF m = 2 THEN (IF y % 4 = 0 /\ (y % 100 # 0 \/ y % 400 = 0) THEN 29 ELSE 28)
    ELSE 31

\* datetime.strptime(s, "%Y-%m-%d") succeeds.
ParsesAsDate(f) ==
    /\ f.kind = "iso"
    /\ f.y \in 1..9999
    /\ f.m \in 1..12
    /\ f.d \in 1..DaysIn(f.y, f.m)

DateInputs == {Date(2024, 3, 1), Date(2024, 2, 30)}
SessionDateInputs == {Date(2024, 3, 1), NotADate, NoDate}
EventNameInputs == {<<"Regionals", Sp>>, <<Sp>>}
SessionLabelInputs == {<<"Day 1 AM">>, <<>>}
EventIdInputs == {Absent, Num(1)}

\* manage_events, action add_event.
manage_events_add_event(u, name_in, start_in, end_in, location_in) ==
    LET name == Strip(name_in)
    IN  /\ request' = Req("manage_events", "add_event", u, Absent, NoForm)
        /\ IF ~is_authenticated(u)
           THEN response' = LoginRedirect /\ UNCHANGED events
           ELSE IF ~founder_required(u)
           THEN response' = Forbidden /\ UNCHANGED events
           ELSE IF ~ParsesAsDate(start_in) \/ ~ParsesAsDate(end_in)
           THEN response' = Flash("Invalid dates for event", "danger")
                /\ UNCHANGED events
           ELSE IF name = <<>>
           THEN response' = Flash("Event name is required", "danger")
                /\ UNCHANGED events
           ELSE /\ events' = Append(events,
                      [name |-> name,
                       date_start |-> <<start_in.y, start_in.m, start_in.d>>,
                       date_end |-> <<end_in.y, end_in.m, end_in.d>>,
                       location |-> Strip(location_in)])
                /\ response' = Flash("Event created", "success")
        /\ UNCHANGED <<backend, userTables, sessions, packages, bookingTables,
                       cardTables, otherTables, now, pending>>

\* manage_events, action add_session.
manage_events_add_session(u, event_in, label_in, date_in, time_block_in) ==
    LET event_id == FormInt(event_in)
        label == Strip(label_in)
        time_block == Strip(time_block_in)
    IN  /\ request' = Req("manage_events", "add_session", u, event_in, NoForm)
        /\ IF ~is_authenticated(u)
           THEN response' = LoginRedirect /\ UNCHANGED sessions
           ELSE IF ~founder_required(u)
           THEN response' = Forbidden /\ UNCHANGED sessions
           ELSE IF event_id = None \/ label = <<>> \/ date_in.kind = "empty"
           THEN response' = Flash("Event, label and date are required for session",
                                  "danger")
                /\ UNCHANGED sessions
           ELSE IF ~ParsesAsDate(date_in)
           THEN response' = Flash("Invalid session date", "danger")
                /\ UNCHANGED sessions
           ELSE IF ~FkOk(events, event_id)
           THEN response' = ServerError /\ UNCHANGED sessions
           ELSE /\ sessions' = Append(sessions,
                      [event_id |-> event_id, label |-> label,
                       date |-> <<date_in.y, date_in.m, date_in.d>>,
                       time_block |-> time_block])
                /\ response' = Flash("Session created", "success")
        /\ UNCHANGED <<backend, userTables, events, packages, bookingTables,
                       cardTables, otherTables, now, pending>>

PackageNameInputs == {<<"Standard">>, <<>>}

\* manage_packages.
manage_packages(u, name_in, description_in) ==
    LET name == Strip(name_in)
    IN  /\ request' = Req("manage_packages", "", u, Absent, NoForm)
        /\ IF ~is_authenticated(u)
           THEN response' = LoginRedirect /\ UNCHANGED packages
           ELSE IF ~founder_required(u)
           THEN response' = Forbidden /\ UNCHANGED packages
           ELSE IF name = <<>>
           THEN response' = Flash("Package name is required", "danger")
                /\ UNCHANGED packages
           ELSE /\ packages' = Append(packages,
                      [name |-> name, description |-> Strip(description_in)])
                /\ response' = Flash("Package created", "success")
        /\ UNCHANGED <<backend, userTables, events, sessions, bookingTables,
                       cardTables, otherTables, now, pending>>

EventForms ==
    [name : EventNameInputs, date_start : DateInputs, date_end : DateInputs,
     location : {<<>>}]
SessionForms ==
    [event_id : EventIdInputs, label : SessionLabelInputs, date : SessionDateInputs,
     time_block : {<<"AM">>}]
PackageForms == [name : PackageNameInputs, description : {<<>>}]

AddEventBy(U, Forms) ==
    \E u \in U, f \in Forms :
        /\ manage_events_add_event(u, f.name, f.date_start, f.date_end, f.location)
        /\ Len(events') <= MaxEvents

AddSessionBy(U, Forms) ==
    \E u \in U, f \in Forms :
        /\ manage_events_add_session(u, f.event_id, f.label, f.date, f.time_block)
        /\ Len(sessions') <= MaxSessions

AddPackageBy(U, Forms) ==
    \E u \in U, f \in Forms :
        /\ manage_packages(u, f.name, f.description)
        /\ Len(packages') <= MaxPackages

\* ---------------------------------------------------------------- bookings

\* Athlete.query.filter_by(name=name, team=team).first(): the first match.
FindAthleteMut(name, team) == None
FindAthlete(name, team) ==
    LET hits == {i \in 1..Len(athletes) :
                    athletes[i].name = name /\ athletes[i].team = team}
    IN  IF hits = {} THEN None ELSE CHOOSE i \in hits : \A j \in hits : i <= j

\* Line 364: the three mandatory fields are present.
BookingCompleteMut(athlete_name, session_in, package_in) == athlete_name # <<>>
BookingComplete(athlete_name, session_in, package_in) ==
    athlete_name # <<>> /\ Truthy(session_in) /\ Truthy(package_in)

AthleteNameInputs == {<<"Jane", Sp>>, <<Sp>>}
TeamInputs == {<<"Iron">>, <<>>}
ProfileInputs ==
    {[weight_class |-> <<"55">>, notes |-> <<"first">>],
     [weight_class |-> <<"59">>, notes |-> <<"second">>]}
SessionIdInputs == {Absent, Num(1), Junk}
PackageIdInputs == {Absent, Num(1)}

\* athletes_view, action add_athlete_session.
athletes_view_add_athlete_session(u, name_in, team_in, weight_in, notes_in, session_in, package_in, music, paid) ==
    LET athlete_name == Strip(name_in)
        team == Strip(team_in)
        weight_class == Strip(weight_in)
        notes == Strip(notes_in)
        found == FindAthlete(athlete_name, team)
        athletes1 == IF found # None THEN athletes
                     ELSE Append(athletes,
                             [name |-> athlete_name, team |-> team,
                              weight_class |-> weight_class, notes |-> notes])
        athlete == IF found # None THEN found ELSE Len(athletes1)
    IN  /\ request' = Req("athletes_view", "add_athlete_session", u, session_in,
                          [athlete_name |-> name_in, team |-> team_in,
                           package_id |-> package_in])
        /\ IF ~is_authenticated(u)
           THEN response' = LoginRedirect /\ UNCHANGED bookingTables
           ELSE IF ~IsFounder(u)
           THEN \* the POST branch is skipped and the page is rendered
                response' = Rendered /\ UNCHANGED bookingTables
           ELSE IF ~BookingComplete(athlete_name, session_in, package_in)
           THEN response' = Flash("Athlete name, session and package are required",
                                  "danger")
                /\ UNCHANGED bookingTables
           ELSE IF \/ ~IsInt(session_in)
                   \/ ~IsInt(package_in)
                   \/ ~FkOk(sessions, IntOf(session_in))
                   \/ ~FkOk(packages, IntOf(package_in))
           THEN \* int() raises or the commit fails: the flushed athlete is
                \* rolled back with the rest of the transaction
                response' = ServerError /\ UNCHANGED bookingTables
           ELSE /\ athletes' = athletes1
                /\ athlete_sessions' = Append(athlete_sessions,
                      [athlete_id |-> athlete, session_id |-> IntOf(session_in),
                       package_id |-> IntOf(package_in), music_link |-> Strip(music),
                       music_start |-> <<>>, music_end |-> <<>>, paid |-> paid,
                       notes |-> notes])
                /\ response' = Flash("Athlete session saved", "success")
        /\ UNCHANGED <<backend, userTables, eventTables, cardTables, otherTables,
                       now, pending>>

BookingForms ==
    [athlete_name : AthleteNameInputs, team : TeamInputs, profile : ProfileInputs,
     session_id : SessionIdInputs, package_id : PackageIdInputs,
     music_link : {<<>>}, paid : {FALSE}]

BookBy(U, Forms) ==
    \E u \in U, f \in Forms :
        /\ athletes_view_add_athlete_session(u, f.athlete_name, f.team,
                                             f.profile.weight_class, f.profile.notes,
                                             f.session_id, f.package_id,
                                             f.music_link, f.paid)
        /\ Len(athlete_sessions') <= MaxBookings
        /\ Len(athletes') <= MaxAthletes

\* --- bookings when requests interleave --------------------------------------
\* The handler looks the athlete up by (name, team) (line 367) and inserts
\* the athlete it did not find (lines 368-376) and the booking (378-388) in
\* the transaction committed at line 389.  Nothing makes the lookup and the
\* insert one step across workers, and athletes has no unique constraint.

\* Lines 352-367, for a founder whose form passes line 364: look the athlete up.
athletes_view_add_athlete_session_read(u, name_in, team_in, weight_in, notes_in, session_in, package_in, music, paid, rid) ==
    /\ is_authenticated(u) /\ IsFounder(u)
    /\ BookingComplete(Strip(name_in), session_in, package_in)
    /\ pending' = pending \cup
          {InFlight(rid, "add_athlete_session", u, session_in, package_in,
                    FindAthlete(Strip(name_in), Strip(team_in)), TRUE, paid, None,
                    <<name_in, team_in, weight_in, notes_in, music>>)}
    /\ UNCHANGED <<backend, userTables, eventTables, bookingTables, cardTables,
                   otherTables, now, request, response>>

\* Lines 368-390: insert the athlete not found, insert the booking, commit.
athletes_view_add_athlete_session_commit(p) ==
    LET athletes1 == IF p.row # None THEN athletes
                     ELSE Append(athletes,
                             [name |-> Strip(p.text[1]), team |-> Strip(p.text[2]),
                              weight_class |-> Strip(p.text[3]),
                              notes |-> Strip(p.text[4])])
        athlete == IF p.row # None THEN p.row ELSE Len(athletes1)
    IN  /\ pending' = pending \ {p}
        /\ request' = Req("athletes_view", "add_athlete_session", p.user, p.key,
                          [athlete_name |-> p.text[1], team |-> p.text[2],
                           package_id |-> p.key2])
        /\ IF \/ ~IsInt(p.key)
              \/ ~IsInt(p.key2)
              \/ ~FkOk(sessions, IntOf(p.key))
              \/ ~FkOk(packages, IntOf(p.key2))
           THEN response' = ServerError /\ UNCHANGED bookingTables
           ELSE /\ athletes' = athletes1
                /\ athlete_sessions' = Append(athlete_sessions,
                      [athlete_id |-> athlete, session_id |-> IntOf(p.key),
                       package_id |-> IntOf(p.key2), music_link |-> Strip(p.text[5]),
                       music_start |-> <<>>, music_end |-> <<>>, paid |-> p.flag,
                       notes |-> Strip(p.text[4])])
                /\ response' = Flash("Athlete session saved", "success")
        /\ UNCHANGED <<backend, userTables, eventTables, cardTables, otherTables, now>>

BookRead(U, Forms) ==
    \E u \in U, f \in Forms, rid \in FreeRids :
        athletes_view_add_athlete_session_read(u, f.athlete_name, f.team,
            f.profile.weight_class, f.profile.notes, f.session_id, f.package_id,
            f.music_link, f.paid, rid)

BookCommit ==
    \E p \in PendingOf("add_athlete_session") :
        /\ athletes_view_add_athlete_session_commit(p)
        /\ Len(athlete_sessions') <= MaxBookings
        /\ Len(athletes') <= MaxAthletes

\* ---------------------------------------------------------------- manpower

CrewRoleInputs == {<<"photographer">>, <<Sp>>}

\* manpower_view.
manpower_view(u, event_in, session_in, user_in, role_in, notes_in) ==
    LET event_id == FormInt(event_in)
        session_id == FormInt(session_in)
        user_id == FormInt(user_in)
        role == Strip(role_in)
    IN  /\ request' = Req("manpower_view", "", u, Absent, NoForm)
        /\ IF ~is_authenticated(u)
           THEN response' = LoginRedirect /\ UNCHANGED manpower_allocations
           ELSE IF ~IsFounder(u)
           THEN \* the POST branch is skipped and the page is rendered
                response' = Rendered /\ UNCHANGED manpower_allocations
           ELSE IF event_id = None \/ session_id = None \/ user_id = None
                   \/ role = <<>>
           THEN response' = Flash("Event, session, user and role are required",
                                  "danger")
                /\ UNCHANGED manpower_allocations
           ELSE IF ~FkOk(events, event_id) \/ ~FkOk(sessions, session_id)
                   \/ ~FkOk(users, user_id)
           THEN response' = ServerError /\ UNCHANGED manpower_allocations
           ELSE /\ manpower_allocations' = Append(manpower_allocations,
                      [event_id |-> event_id, session_id |-> session_id,
                       user_id |-> user_id, role |-> role, notes |-> Strip(notes_in)])
                /\ response' = Flash("Manpower allocation added", "success")
        /\ UNCHANGED <<backend, userTables, eventTables, bookingTables, cardTables,
                       edit_tasks, now, pending>>

AllocationForms ==
    [event_id : EventIdInputs, session_id : {Absent, Num(1)}, user_id : {Num(1)},
     role : CrewRoleInputs, notes : {<<>>}]

AllocateBy(U, Forms) ==
    \E u \in U, f \in Forms :
        /\ manpower_view(u, f.event_id, f.session_id, f.user_id, f.role, f.notes)
        /\ Len(manpower_allocations') <= MaxAllocations


\* ---------------------------------------------------------------- edit tasks

TaskIdInputs == {Num(1), Num(2), Junk}
BookingIdInputs == {Absent, Num(1)}
TypeInputs == {<<"highlight">>, <<Sp>>}
StatusInputs == {<<>>, <<Sp, "in_progress">>, <<"sent_to_client">>}
LinkInputs == {<<>>, <<"http://x", Sp>>}

\* EditTask.status default, and the empty deliverable_link column (None; the
\* column never holds the empty string, line 532 stores only non-empty input).
not_started == <<"not_started">>
NoLink == <<>>

\* edits_view, action add_task.
edits_view_add_task(u, booking_in, assignee_in, type_in) ==
    LET athlete_session_id == FormInt(booking_in)
        assigned_to_user_id == FormInt(assignee_in)
        edit_type == Strip(type_in)
    IN  /\ request' = Req("edits_view", "add_task", u, Absent, NoForm)
        /\ IF ~is_authenticated(u)
           THEN response' = LoginRedirect /\ UNCHANGED <<edit_tasks, now>>
           ELSE IF ~IsFounder(u)
           THEN \* no branch of the if/elif chain matches
                response' = Redirect /\ UNCHANGED <<edit_tasks, now>>
           ELSE IF athlete_session_id = None \/ assigned_to_user_id = None
                   \/ edit_type = <<>>
           THEN response' = Flash("All fields are required", "danger")
                /\ UNCHANGED <<edit_tasks, now>>
           ELSE IF ~FkOk(athlete_sessions, athlete_session_id)
                   \/ ~FkOk(users, assigned_to_user_id)
           THEN \* the INSERT is rejected; the default of updated_at has read
                \* the clock by then
                /\ response' = ServerError
                /\ now' = now + 1
                /\ UNCHANGED edit_tasks
           ELSE /\ edit_tasks' = Append(edit_tasks,
                      [athlete_session_id |-> athlete_session_id,
                       assigned_to_user_id |-> assigned_to_user_id,
                       type |-> edit_type, status |-> not_started,
                       deliverable_link |-> NoLink, updated_at |-> now])
                /\ now' = now + 1
                /\ response' = Flash("Edit task created", "success")
        /\ UNCHANGED <<backend, userTables, eventTables, bookingTables, cardTables,
                       manpower_allocations, pending>>

\* Line 528: the caller may update the task (a founder, or its assignee).
MayUpdateTaskMut(u, task) == TRUE
MayUpdateTask(u, task) ==
    IsFounder(u) \/ edit_tasks[task].assigned_to_user_id = u

\* Lines 530-531: the status after the update.
NewStatusMut(status, old) == old
NewStatus(status, old) == IF status # <<>> THEN status ELSE old

\* Line 532: deliverable_link or task.deliverable_link.
NewLinkMut(link, old) == link
NewLink(link, old) == IF link # <<>> THEN link ELSE old

\* edits_view, action update_status.
edits_view_update_status(u, task_in, status_in, link_in) ==
    LET task_id == FormInt(task_in)
        task == IF task_id \in 1..Len(edit_tasks) THEN task_id ELSE None
        status == Strip(status_in)
        deliverable_link == Strip(link_in)
    IN  /\ request' = Req("edits_view", "update_status", u, task_in,
                             [status |-> status_in, deliverable_link |-> link_in])
        /\ IF ~is_authenticated(u)
           THEN response' = LoginRedirect /\ UNCHANGED <<edit_tasks, now>>
           ELSE IF task = None
           THEN response' = Flash("Task not found", "danger")
                /\ UNCHANGED <<edit_tasks, now>>
           ELSE IF ~MayUpdateTask(u, task)
           THEN response' = Forbidden /\ UNCHANGED <<edit_tasks, now>>
           ELSE /\ edit_tasks' = [edit_tasks EXCEPT
                      ![task].status = NewStatus(status, @),
                      ![task].deliverable_link = NewLink(deliverable_link, @),
                      ![task].updated_at = now]
                /\ now' = now + 1
                /\ response' = Flash("Task updated", "success")
        /\ UNCHANGED <<backend, userTables, eventTables, bookingTables, cardTables,
                       manpower_allocations, pending>>

TaskForms ==
    [athlete_session_id : BookingIdInputs, assigned_to_user_id : UserIdInputs,
     type : TypeInputs]
UpdateForms ==
    [task_id : TaskIdInputs, status : StatusInputs, deliverable_link : LinkInputs]

AddTaskBy(U, Forms) ==
    \E u \in U, f \in Forms :
        /\ edits_view_add_task(u, f.athlete_session_id, f.assigned_to_user_id, f.type)
        /\ Len(edit_tasks') <= MaxTasks
        /\ now' <= MaxTime

UpdateStatusBy(U, Forms) ==
    \E u \in U, f \in Forms :
        /\ edits_view_update_status(u, f.task_id, f.status, f.deliverable_link)
        /\ now' <= MaxTime

\* --- update_status when requests interleave ---------------------------------
\* The handler loads the task (line 524), checks the caller against the row
\* it loaded (line 528), changes its copy (lines 530-532), reads the clock
\* into it (line 533) and commits (line 534): UPDATE edit_tasks SET ... WHERE
\* id = ... with the columns whose value in the copy differs from the value
\* loaded.  Other requests may commit between any two of these steps.

\* Lines 520-532: load the task, refuse, or change the copy.
edits_view_update_status_read(u, task_in, status_in, link_in, rid) ==
    LET task_id == FormInt(task_in)
        task == IF task_id \in 1..Len(edit_tasks) THEN task_id ELSE None
    IN  /\ is_authenticated(u)
        /\ IF task = None \/ ~MayUpdateTask(u, task)
           THEN /\ request' = Req("edits_view", "update_status", u, task_in,
                        [status |-> status_in, deliverable_link |-> link_in])
                /\ response' = IF task = None
                                THEN Flash("Task not found", "danger")
                                ELSE Forbidden
                /\ UNCHANGED pending
           ELSE /\ pending' = pending \cup
                      {InFlight(rid, "update_status", u, task_in, Absent, task, TRUE,
                                FALSE, None,
                                <<status_in, link_in, edit_tasks[task].status,
                                  edit_tasks[task].deliverable_link>>)}
                /\ UNCHANGED <<request, response>>
        /\ UNCHANGED <<backend, userTables, eventTables, bookingTables, cardTables,
                       otherTables, now>>

\* Line 533: datetime.utcnow() into the request's copy of the task.
edits_view_update_status_stamp(p) ==
    /\ p.stamp = None
    /\ pending' = (pending \ {p}) \cup {[p EXCEPT !.stamp = now]}
    /\ now' = now + 1
    /\ UNCHANGED <<backend, userTables, eventTables, bookingTables, cardTables,
                   otherTables, request, response>>

\* Lines 534-535: commit the copy.
edits_view_update_status_commit(p) ==
    LET status == NewStatus(Strip(p.text[1]), p.text[3])
        deliverable_link == NewLink(Strip(p.text[2]), p.text[4])
    IN  /\ p.stamp # None
        /\ pending' = pending \ {p}
        /\ request' = Req("edits_view", "update_status", p.user, p.key,
                          [status |-> p.text[1], deliverable_link |-> p.text[2]])
        /\ edit_tasks' = [edit_tasks EXCEPT
              ![p.row].status = Written(status, p.text[3], @),
              ![p.row].deliverable_link = Written(deliverable_link, p.text[4], @),
              ![p.row].updated_at = p.stamp]
        /\ response' = Flash("Task updated", "success")
        /\ UNCHANGED <<backend, userTables, eventTables, bookingTables, cardTables,
                       manpower_allocations, now>>

UpdateRead(U, Forms) ==
    \E u \in U, f \in Forms, rid \in FreeRids :
        edits_view_update_status_read(u, f.task_id, f.status, f.deliverable_link, rid)

UpdateStamp ==
    \E p \in PendingOf("update_status") :
        /\ edits_view_update_status_stamp(p)
        /\ now' <= MaxTime

UpdateCommit ==
    \E p \in PendingOf("update_status") : edits_view_update_status_commit(p)

\* dashboard(): the pending-edits figure, the tasks whose status is not
\* sent_to_client.
PendingTasks ==
    {t \in 1..Len(edit_tasks) : edit_tasks[t].status # <<"sent_to_client">>}
pending_edits == Cardinality(PendingTasks)

\* The edit desk: bootstrap, login, user creation and the two task actions.
NextEdits ==
    \/ CreateAdminBy(OneFounder)
    \/ LoginAt(OneBrowser)
    \/ LogoutAt(OneBrowser)
    \/ AddUserBy(Callers, FreelancerForms)
    \/ AddTaskBy(Callers, TaskForms)
    \/ UpdateStatusBy(Callers, UpdateForms)

SpecEdits == Init /\ [][NextEdits]_vars

\* ---------------------------------------------------------------- card desk

\* The card desk: bootstrap, login, and the three card actions with every
\* form, one request at a time.
NextCards ==
    \/ CreateAdminBy(OneFounder)
    \/ LoginAt(OneBrowser)
    \/ LogoutAt(OneBrowser)
    \/ AddCardBy(Callers, CardForms)
    \/ CheckoutBy(Callers, CheckoutForms)
    \/ ReturnBy(Callers, LogIdInputs)

SpecCards == Init /\ [][NextCards]_vars

\* The card desk with checkout and return requests handled concurrently,
\* each in the steps other requests may come between.
NextRace ==
    \/ CreateAdminBy(OneFounder)
    \/ LoginAt(OneBrowser)
    \/ LogoutAt(OneBrowser)
    \/ AddCardBy(Callers, StageCardForms)
    \/ CheckoutRead
    \/ CheckoutCommit
    \/ ReturnRead
    \/ ReturnStamp
    \/ ReturnFlush
    \/ ReturnCommit

SpecRace == Init /\ [][NextRace]_vars

\* ---------------------------------------------------------------- the application

\* Every handler, any caller, one request at a time.
Next ==
    \/ CreateAdmin
    \/ Login
    \/ Logout
    \/ AddUserBy(Callers, UserForms)
    \/ ToggleActiveBy(Callers, UserIdInputs)
    \/ ChangeRoleBy(Callers, RoleForms)
    \/ AddEventBy(Callers, EventForms)
    \/ AddSessionBy(Callers, SessionForms)
    \/ AddPackageBy(Callers, PackageForms)
    \/ BookBy(Callers, BookingForms)
    \/ AllocateBy(Callers, AllocationForms)
    \/ AddCardBy(Callers, CardForms)
    \/ CheckoutBy(Callers, CheckoutForms)
    \/ ReturnBy(Callers, LogIdInputs)
    \/ AddTaskBy(Callers, TaskForms)
    \/ UpdateStatusBy(Callers, UpdateForms)

Spec == Init /\ [][Next]_vars

\* The logged-in callers by role.
Founders == {u \in LoggedIn : IsFounder(u)}
NonFounders == LoggedIn \ Founders

\* Forms that pass the handlers' validation: what a caller would post to get
\* a row stored.
ValidEventForms ==
    {f \in EventForms : Strip(f.name) # <<>> /\ ParsesAsDate(f.date_start)
                        /\ ParsesAsDate(f.date_end)}
ValidSessionForms ==
    {f \in SessionForms : Truthy(f.event_id) /\ Strip(f.label) # <<>>
                          /\ ParsesAsDate(f.date)}
ValidPackageForms == {f \in PackageForms : Strip(f.name) # <<>>}
ValidBookingForms ==
    {f \in BookingForms : BookingComplete(Strip(f.athlete_name), f.session_id,
                                          f.package_id)
                          /\ f.session_id.kind = "num"}
ValidTaskForms ==
    {f \in TaskForms : Truthy(f.athlete_session_id) /\ Truthy(f.assigned_to_user_id)
                       /\ Strip(f.type) # <<>>}

\* The booking desk: one founder's bootstrap and login, a founder filling the catalogue
\* with valid events, sessions and packages, and every caller posting every
\* booking form.
NextBooking ==
    \/ CreateAdminBy(OneFounder)
    \/ LoginAt(OneBrowser)
    \/ LogoutAt(OneBrowser)
    \/ AddEventBy(Founders, ValidEventForms)
    \/ AddSessionBy(Founders, ValidSessionForms)
    \/ AddPackageBy(Founders, ValidPackageForms)
    \/ BookBy(Callers, BookingForms)

SpecBooking == Init /\ [][NextBooking]_vars

\* Forms that pass validation and whose keys are numbers that may name no
\* row: negative, zero, one.
KeyInputs == {Num(-1), Num(0), Num(1)}
KeySessionForms ==
    [event_id : KeyInputs, label : {<<"Day 1 AM">>}, date : {Date(2024, 3, 1)},
     time_block : {<<"AM">>}]
KeyBookingForms ==
    [athlete_name : {<<"Jane", Sp>>}, team : {<<"Iron">>},
     profile : {[weight_class |-> <<"55">>, notes |-> <<"first">>]},
     session_id : KeyInputs, package_id : KeyInputs, music_link : {<<>>},
     paid : {FALSE}]

\* The booking desk as to the keys it stores: a founder fills the catalogue
\* and posts sessions and bookings with every key.
NextKeys ==
    \/ CreateAdminBy(OneFounder)
    \/ LoginAt(OneBrowser)
    \/ LogoutAt(OneBrowser)
    \/ AddEventBy(Founders, ValidEventForms)
    \/ AddSessionBy(Founders, KeySessionForms)
    \/ AddPackageBy(Founders, ValidPackageForms)
    \/ BookBy(Founders, KeyBookingForms)

SpecKeys == Init /\ [][NextKeys]_vars

\* The user desk: the bootstrap script, login and the three actions of
\* manage_users, every caller posting every form.
NextUsers ==
    \/ CreateAdmin
    \/ Login
    \/ Logout
    \/ AddUserBy(Callers, UserForms)
    \/ ToggleActiveBy(Callers, UserIdInputs)
    \/ ChangeRoleBy(Callers, RoleForms)

SpecUsers == Init /\ [][NextUsers]_vars

\* The user desk with the script and a founder's add_user of a freelancer
\* handled concurrently, each in two steps another request may come between;
\* add_user of a freelancer is also taken in one step, by every caller.
NextUsersRace ==
    \/ CreateAdminRead
    \/ CreateAdminCommit
    \/ LoginAt(OneBrowser)
    \/ LogoutAt(OneBrowser)
    \/ AddUserBy(Callers, FreelancerForms)
    \/ AddUserRead(Founders, FreelancerForms)
    \/ AddUserCommit

SpecUsersRace == Init /\ [][NextUsersRace]_vars

\* The same desk with toggle_active handled concurrently.
NextToggleRace ==
    \/ CreateAdmin
    \/ Login
    \/ Logout
    \/ AddUserBy(Founders, FreelancerForms)
    \/ ToggleActiveRead(Founders, UserIdInputs)
    \/ ToggleActiveCommit

SpecToggleRace == Init /\ [][NextToggleRace]_vars

\* The booking desk with a founder's bookings handled concurrently, each in
\* two steps another request may come between.
NextBookingRace ==
    \/ CreateAdminBy(OneFounder)
    \/ Login
    \/ Logout
    \/ AddEventBy(Founders, ValidEventForms)
    \/ AddSessionBy(Founders, ValidSessionForms)
    \/ AddPackageBy(Founders, ValidPackageForms)
    \/ BookRead(Founders, ValidBookingForms)
    \/ BookCommit

SpecBookingRace == Init /\ [][NextBookingRace]_vars

\* The updates sent concurrently: of the first task, by any field.
RacingUpdateForms == {f \in UpdateForms : f.task_id = Num(1)}

\* The edit desk with update_status handled concurrently, each request in
\* three steps other requests may come between; founders set the stage.
NextEditsRace ==
    \/ CreateAdminBy(OneFounder)
    \/ LoginAt(OneBrowser)
    \/ LogoutAt(OneBrowser)
    \/ AddUserBy(Founders, FreelancerForms)
    \/ AddTaskBy(Founders, ValidTaskForms)
    \/ UpdateRead(Callers, RacingUpdateForms)
    \/ UpdateStamp
    \/ UpdateCommit

SpecEditsRace == Init /\ [][NextEditsRace]_vars

\* The application as a non-founder meets it: founders set the stage (a
\* freelancer account, a card, edit tasks) and the non-founders post every
\* form to every handler.
NextRoles ==
    \/ CreateAdminBy(OneFounder)
    \/ LoginAt(OneBrowser)
    \/ LogoutAt(OneBrowser)
    \/ AddUserBy(Founders, FreelancerForms)
    \/ AddCardBy(Founders, StageCardForms)
    \/ AddTaskBy(Founders, ValidTaskForms)
    \/ AddUserBy(NonFounders, UserForms)
    \/ ToggleActiveBy(NonFounders, UserIdInputs)
    \/ ChangeRoleBy(NonFounders, RoleForms)
    \/ AddEventBy(NonFounders, EventForms)
    \/ AddSessionBy(NonFounders, SessionForms)
    \/ AddPackageBy(NonFounders, PackageForms)
    \/ BookBy(NonFounders, BookingForms)
    \/ AllocateBy(NonFounders, AllocationForms)
    \/ AddCardBy(NonFounders, CardForms)
    \/ CheckoutBy(NonFounders, CheckoutForms)
    \/ ReturnBy(NonFounders, LogIdInputs)
    \/ AddTaskBy(NonFounders, TaskForms)
    \/ UpdateStatusBy(NonFounders, UpdateForms)

SpecRoles == Init /\ [][NextRoles]_vars

\* ---------------------------------------------------------------- properties

\* The open logs of a card.
OpenLogs(c) ==
    {l \in 1..Len(sd_card_logs) :
        sd_card_logs[l].sd_card_id = c /\ sd_card_logs[l].returned_at = None}

\* C1: after any sequence of add-card, checkout and return requests, a card is
\* checked_out exactly when it has exactly one open log, and a card that is
\* not checked_out has no open log.
C1_StatusMatchesOpenLog ==
    \A c \in 1..Len(sd_cards) :
        /\ sd_cards[c].status = "checked_out" <=> Cardinality(OpenLogs(c)) = 1
        /\ sd_cards[c].status # "checked_out" => OpenLogs(c) = {}

\* Two cards: one checked out with its one open log, the other returned and
\* available with a closed log and no open one.
C1_Witness ==
    \E c, d \in 1..Len(sd_cards) :
        /\ c # d
        /\ sd_cards[c].status = "checked_out"
        /\ Cardinality(OpenLogs(c)) = 1
        /\ sd_cards[d].status = "available"
        /\ OpenLogs(d) = {}
        /\ \E l \in 1..Len(sd_card_logs) :
              sd_card_logs[l].sd_card_id = d /\ sd_card_logs[l].returned_at # None

\* C2: when checkout requests for one card interleave, the card never has two
\* open logs (the losing request reports a conflict and adds no log).
C2_AtMostOneOpenLog ==
    \A c \in 1..Len(sd_cards) : Cardinality(OpenLogs(c)) <= 1

\* The step completes an authenticated request on `endpoint` with form
\* action `action` (a step taken for a request that stays in flight
\* completes nothing).
Handled(endpoint, action) ==
    /\ request'.endpoint = endpoint
    /\ request'.action = action
    /\ is_authenticated(request'.user)
    /\ pending' \subseteq pending

\* C3: a checkout of a card that is not available (checked out, lost, or
\* named by an id that finds no card) flashes "Card not available", adds no
\* log and changes no card.
C3_CheckoutRefused ==
    [][(Handled("sd_cards_view", "checkout")
          /\ ~(/\ Get(sd_cards, request'.id) # None
               /\ sd_cards[Get(sd_cards, request'.id)].status = "available"))
       => /\ response' = Flash("Card not available", "danger")
          /\ sd_card_logs' = sd_card_logs
          /\ sd_cards' = sd_cards]_vars

\* C4: a return that completes on a log that is already closed, or on a log
\* id that does not exist, flashes "Could not return card" and changes no log
\* and no card; of two returns of one log only the first changes anything.
C4_ReturnRefused ==
    [][(Handled("sd_cards_view", "return")
          /\ ~(/\ Get(sd_card_logs, request'.id) # None
               /\ sd_card_logs[Get(sd_card_logs, request'.id)].returned_at = None))
       => /\ response' = Flash("Could not return card", "danger")
          /\ sd_card_logs' = sd_card_logs
          /\ sd_cards' = sd_cards]_vars


\* The task an update_status request names, or None.
TaskOf(req) ==
    IF req.id.kind = "num" /\ req.id.val \in 1..Len(edit_tasks) THEN req.id.val ELSE None

\* C5: an update of an existing task by a caller who is neither a founder nor
\* the task's assignee is answered 403 and leaves every task as it was; an
\* update by a founder or by the assignee is answered "Task updated".
C5_UpdateTaskAuthorization ==
    [][(Handled("edits_view", "update_status") /\ TaskOf(request') # None)
       => LET u == request'.user
              t == TaskOf(request')
          IN  IF IsFounder(u) \/ edit_tasks[t].assigned_to_user_id = u
              THEN response' = Flash("Task updated", "success")
              ELSE /\ response' = Forbidden
                   /\ edit_tasks' = edit_tasks]_vars

\* A freelancer who has updated the task assigned to them is refused on a task
\* assigned to somebody else.
C5_Witness ==
    /\ request.endpoint = "edits_view" /\ request.action = "update_status"
    /\ is_authenticated(request.user) /\ ~IsFounder(request.user)
    /\ TaskOf(request) # None
    /\ edit_tasks[TaskOf(request)].assigned_to_user_id # request.user
    /\ response = Forbidden
    /\ \E t \in 1..Len(edit_tasks) :
          /\ edit_tasks[t].assigned_to_user_id = request.user
          /\ edit_tasks[t].status # not_started

\* C8: a successful update replaces status exactly when a non-empty status is
\* supplied and deliverable_link exactly when a non-empty link is supplied; an
\* empty input keeps the stored value; updated_at is set to the time of the
\* update, later than the stored one, whatever the inputs.
C8_PartialUpdate ==
    [][(Handled("edits_view", "update_status")
          /\ response' = Flash("Task updated", "success"))
       => LET t == TaskOf(request')
              status == Strip(request'.form.status)
              link == Strip(request'.form.deliverable_link)
          IN  /\ t # None
              /\ status = <<>> => edit_tasks'[t].status = edit_tasks[t].status
              /\ status # <<>> => edit_tasks'[t].status = status
              /\ link = <<>> =>
                    edit_tasks'[t].deliverable_link = edit_tasks[t].deliverable_link
              /\ link # <<>> => edit_tasks'[t].deliverable_link = link
              /\ edit_tasks'[t].updated_at = now
              /\ edit_tasks'[t].updated_at > edit_tasks[t].updated_at
              /\ \A o \in 1..Len(edit_tasks) : o # t => edit_tasks'[o] = edit_tasks[o]]_vars

\* An update with both inputs empty on a task that already has a status and a
\* link: both are kept and updated_at is the time of this update.
C8_Witness ==
    /\ request.endpoint = "edits_view" /\ request.action = "update_status"
    /\ response = Flash("Task updated", "success")
    /\ Strip(request.form.status) = <<>>
    /\ Strip(request.form.deliverable_link) = <<>>
    /\ edit_tasks[TaskOf(request)].deliverable_link = <<"http://x">>
    /\ edit_tasks[TaskOf(request)].status = <<"in_progress">>
    /\ edit_tasks[TaskOf(request)].updated_at = now - 1

\* The request handled last is a booking sent by a founder.
BookingHandled ==
    /\ request'.endpoint = "athletes_view"
    /\ request'.action = "add_athlete_session"
    /\ is_authenticated(request'.user)
    /\ IsFounder(request'.user)

\* No two athlete rows share (name, team).
UniqueAthletes ==
    \A i, j \in 1..Len(athletes) :
        (athletes[i].name = athletes[j].name /\ athletes[i].team = athletes[j].team)
            => i = j

\* C9: with bookings handled one at a time, no two athlete rows ever share
\* (name, team); a saved booking for a pair that already has a row adds no
\* athlete row, leaves every athlete row (weight_class and notes included) as
\* it was and adds one athlete_sessions row that references the existing row;
\* a saved booking for a new pair adds exactly one athlete row and one
\* athlete_sessions row that references it.
C9_AthleteReuse ==
    [][/\ UniqueAthletes'
       /\ (BookingHandled /\ response' = Flash("Athlete session saved", "success"))
          => LET name == Strip(request'.form.athlete_name)
                 team == Strip(request'.form.team)
                 known == {i \in 1..Len(athletes) :
                             athletes[i].name = name /\ athletes[i].team = team}
                 n == Len(athlete_sessions)
             IN  /\ Len(athlete_sessions') = n + 1
                 /\ SubSeq(athlete_sessions', 1, n) = athlete_sessions
                 /\ IF known # {}
                    THEN /\ athletes' = athletes
                         /\ athlete_sessions'[n + 1].athlete_id \in known
                    ELSE /\ Len(athletes') = Len(athletes) + 1
                         /\ SubSeq(athletes', 1, Len(athletes)) = athletes
                         /\ athletes'[Len(athletes')].name = name
                         /\ athletes'[Len(athletes')].team = team
                         /\ athlete_sessions'[n + 1].athlete_id = Len(athletes')]_vars

\* The same pair booked twice with different weight_class and notes: one
\* athlete row, still holding the first call's values, and two bookings of it.
C9_Witness ==
    /\ request.endpoint = "athletes_view"
    /\ response = Flash("Athlete session saved", "success")
    /\ Len(athletes) = 1
    /\ Len(athlete_sessions) = 2
    /\ athlete_sessions[1].athlete_id = 1
    /\ athlete_sessions[2].athlete_id = 1
    /\ athlete_sessions[2].notes # athlete_sessions[1].notes
    /\ athletes[1].notes = athlete_sessions[1].notes

\* C10: a founder's booking request whose athlete_name (after stripping),
\* session_id or package_id is missing flashes the validation message and
\* adds neither an athlete row nor an athlete_sessions row.
C10_BookingValidation ==
    [][(BookingHandled
          /\ (\/ Strip(request'.form.athlete_name) = <<>>
              \/ request'.id.kind = "absent"
              \/ request'.form.package_id.kind = "absent"))
       => /\ response' = Flash("Athlete name, session and package are required",
                               "danger")
          /\ athletes' = athletes
          /\ athlete_sessions' = athlete_sessions]_vars

\* A booking with a name and a session but no package, refused, while the
\* session and the package it could have named exist.
C10_Witness ==
    /\ request.endpoint = "athletes_view"
    /\ is_authenticated(request.user) /\ IsFounder(request.user)
    /\ Strip(request.form.athlete_name) # <<>>
    /\ request.id = Num(1)
    /\ request.form.package_id = Absent
    /\ Len(sessions) >= 1 /\ Len(packages) >= 1
    /\ response = Flash("Athlete name, session and package are required", "danger")

\* The request handled last was sent by a logged-in user whose role, when the
\* request arrived, was not founder.
ByNonFounder ==
    /\ is_authenticated(request'.user)
    /\ users[request'.user].role # <<"founder">>

\* The founder-only mutating requests: add card, book an athlete session,
\* allocate manpower, create an edit task, manage events, packages and users.
FounderOnly(req) ==
    \/ req.endpoint = "sd_cards_view" /\ req.action = "add_card"
    \/ req.endpoint = "athletes_view" /\ req.action = "add_athlete_session"
    \/ req.endpoint = "manpower_view"
    \/ req.endpoint = "edits_view" /\ req.action = "add_task"
    \/ req.endpoint \in {"manage_events", "manage_packages", "manage_users"}

\* The rows of every table are as they were.
TablesUnchanged ==
    UNCHANGED <<users, events, sessions, packages, athletes, athlete_sessions,
                sd_cards, sd_card_logs, manpower_allocations, edit_tasks>>

\* C6: a founder-only request sent by a caller who is not a founder is
\* answered 403 Forbidden and changes no table.
C6_NonFounderForbidden ==
    [][(ByNonFounder /\ FounderOnly(request'))
       => (response' = Forbidden /\ TablesUnchanged)]_vars

\* Two card rows differ at most in status; two task rows differ at most in
\* status, deliverable_link and updated_at.
SameCard(a, b) == a.label = b.label /\ a.capacity_gb = b.capacity_gb
SameTask(a, b) ==
    /\ a.athlete_session_id = b.athlete_session_id
    /\ a.assigned_to_user_id = b.assigned_to_user_id
    /\ a.type = b.type

\* C7: a request sent by a non-founder changes nothing except: the status,
\* deliverable_link and updated_at of edit tasks assigned to the caller (by
\* update_status), and the status of cards and the rows of sd_card_logs (by
\* checkout and return).  Users, events, sessions, packages, athletes, athlete
\* sessions and manpower allocations are unchanged, and no card and no edit
\* task is added, removed or otherwise altered.
C7_FreelancerFrame ==
    [][ByNonFounder
       => /\ UNCHANGED <<users, events, sessions, packages, athletes,
                         athlete_sessions, manpower_allocations>>
          /\ Len(sd_cards') = Len(sd_cards)
          /\ \A c \in 1..Len(sd_cards) : SameCard(sd_cards'[c], sd_cards[c])
          /\ (sd_cards' # sd_cards \/ sd_card_logs' # sd_card_logs)
                => /\ request'.endpoint = "sd_cards_view"
                   /\ request'.action \in {"checkout", "return"}
          /\ Len(edit_tasks') = Len(edit_tasks)
          /\ \A t \in 1..Len(edit_tasks) :
                \/ edit_tasks'[t] = edit_tasks[t]
                \/ /\ SameTask(edit_tasks'[t], edit_tasks[t])
                   /\ edit_tasks[t].assigned_to_user_id = request'.user
                   /\ request'.endpoint = "edits_view"
                   /\ request'.action = "update_status"]_vars

\* A freelancer who has updated their own task and checked out a card posts a
\* valid booking: nothing is stored.
C7_Witness ==
    /\ request.endpoint = "athletes_view"
    /\ is_authenticated(request.user)
    /\ users[request.user].role = <<"freelancer">>
    /\ athletes = <<>> /\ athlete_sessions = <<>>
    /\ \E t \in 1..Len(edit_tasks) :
          /\ edit_tasks[t].assigned_to_user_id = request.user
          /\ edit_tasks[t].status # not_started
    /\ \E l \in 1..Len(sd_card_logs) : sd_card_logs[l].user_id = request.user

\* ------------------------------------------------------------------- C11

\* C11: every Session references an existing Event, and every AthleteSession
\* references an existing Athlete, an existing Session and an existing
\* Package.
C11_ForeignKeysResolve ==
    /\ \A s \in 1..Len(sessions) : sessions[s].event_id \in 1..Len(events)
    /\ \A b \in 1..Len(athlete_sessions) :
          /\ athlete_sessions[b].athlete_id \in 1..Len(athletes)
          /\ athlete_sessions[b].session_id \in 1..Len(sessions)
          /\ athlete_sessions[b].package_id \in 1..Len(packages)

\* ------------------------------------------------------------------- C12

EmailsUnique ==
    \A i, j \in 1..Len(users) : users[i].email = users[j].email => i = j

EmailKnown(email_in) ==
    \E i \in 1..Len(users) : users[i].email = Lower(Strip(email_in))

\* The step is a run of the bootstrap script from its lookup to its end.
Bootstrapped == request'.endpoint = "create_admin" /\ pending' = pending

\* The step is the commit of the request p in flight.
Commits(p) == p \in pending /\ pending' = pending \ {p}

\* The step appends one user with the email and leaves every stored user as
\* it was.
AddsUser(email_in) ==
    /\ Len(users') = Len(users) + 1
    /\ SubSeq(users', 1, Len(users)) = users
    /\ users'[Len(users')].email = Lower(Strip(email_in))

\* C12: no two users share an email, however the script and add_user
\* interleave.  A bootstrap run, or a founder's add_user with name and
\* password given, whose lookup finds the email (stripped, lower-cased)
\* reports the conflict and leaves the users table as it was; one whose
\* lookup finds nothing appends one user with that email, unless the email
\* was stored by another request in the meantime, and then it ends in an
\* error and leaves the users table as it was.  A second bootstrap run with
\* the same email therefore changes nothing.  A founder's add_user with a
\* stored email and a blank name flashes the missing field and changes
\* nothing.
C12_EmailUnique ==
    [][/\ EmailsUnique'
       /\ (Bootstrapped /\ EmailKnown(request'.form.email))
          => /\ response' = Printed("User with that email already exists.")
             /\ users' = users
       /\ (Bootstrapped /\ ~EmailKnown(request'.form.email))
          => /\ response' = Printed("Founder user created.")
             /\ AddsUser(request'.form.email)
       /\ (Handled("manage_users", "add_user") /\ pending' = pending
             /\ request'.user \in LoggedIn /\ IsFounder(request'.user)
             /\ EmailKnown(request'.form.email))
          => /\ response' \in {Flash("User with that email already exists", "danger"),
                                Flash("Name, email and password are required", "danger")}
             /\ users' = users
       /\ \A p \in PendingOf("create_admin") \cup PendingOf("add_user") :
             Commits(p)
             => /\ ~p.ok
                   => /\ users' = users
                      /\ response' =
                            IF p.op = "create_admin"
                            THEN Printed("User with that email already exists.")
                            ELSE Flash("User with that email already exists", "danger")
                /\ (p.ok /\ EmailKnown(p.text[1]))
                   => /\ users' = users
                      /\ response' =
                            IF p.op = "create_admin" THEN Traceback ELSE ServerError
                /\ (p.ok /\ ~EmailKnown(p.text[1]))
                   => /\ AddsUser(p.text[1])
                      /\ response' =
                            IF p.op = "create_admin"
                            THEN Printed("Founder user created.")
                            ELSE Flash("User created", "success")]_vars

\* The bootstrap script rerun with the email of a stored user, typed with a
\* leading blank and in capitals.
C12_Witness ==
    /\ request.endpoint = "create_admin"
    /\ request.form.email = <<Sp, "B@X">>
    /\ response = Printed("User with that email already exists.")
    /\ \E i \in 1..Len(users) : users[i].email = <<"b@x">>

\* ------------------------------------------------------------------- C13

\* C13: every user's role is founder or freelancer.
C13_RolesValid ==
    \A i \in 1..Len(users) : users[i].role \in {<<"founder">>, <<"freelancer">>}

\* ------------------------------------------------------------------- C14

Updated == Handled("edits_view", "update_status") /\ TaskOf(request') # None

\* C14: a task a founder creates starts as not_started and raises the
\* pending-edits figure by one; the assignee's update to in_progress and a
\* founder's update to sent_to_client both succeed, the first leaving the
\* task pending and the figure as it was for a pending task, the second
\* taking the task out of the figure; a task that is sent_to_client stays
\* out of the figure through every step except a successful update that
\* gives it another status.
C14_PendingEdits ==
    [][/\ (Handled("edits_view", "add_task")
             /\ response' = Flash("Edit task created", "success"))
          => /\ Len(edit_tasks') = Len(edit_tasks) + 1
             /\ edit_tasks'[Len(edit_tasks')].status = <<"not_started">>
             /\ Len(edit_tasks') \in PendingTasks'
             /\ pending_edits' = pending_edits + 1
       /\ (Updated /\ Strip(request'.form.status) = <<"in_progress">>
             /\ edit_tasks[TaskOf(request')].assigned_to_user_id = request'.user)
          => /\ response' = Flash("Task updated", "success")
             /\ TaskOf(request') \in PendingTasks'
             /\ pending_edits' =
                   pending_edits + (IF TaskOf(request') \in PendingTasks THEN 0 ELSE 1)
       /\ (Updated /\ Strip(request'.form.status) = <<"sent_to_client">>
             /\ IsFounder(request'.user))
          => /\ response' = Flash("Task updated", "success")
             /\ TaskOf(request') \notin PendingTasks'
             /\ pending_edits' =
                   pending_edits - (IF TaskOf(request') \in PendingTasks THEN 1 ELSE 0)
       /\ \A t \in 1..Len(edit_tasks) :
             (t \notin PendingTasks /\ t \in PendingTasks')
             => /\ Updated /\ TaskOf(request') = t
                /\ response' = Flash("Task updated", "success")
                /\ Strip(request'.form.status) \notin {<<>>, <<"sent_to_client">>}
       /\ Len(edit_tasks') >= Len(edit_tasks)]_vars

\* The scenario's end: a founder has just sent a freelancer's task to the
\* client, two updates after it was created, and no edit is pending.
C14_Witness ==
    /\ request.endpoint = "edits_view" /\ request.action = "update_status"
    /\ is_authenticated(request.user) /\ IsFounder(request.user)
    /\ Strip(request.form.status) = <<"sent_to_client">>
    /\ response = Flash("Task updated", "success")
    /\ Len(edit_tasks) = 1
    /\ edit_tasks[1].status = <<"sent_to_client">>
    /\ edit_tasks[1].assigned_to_user_id # request.user
    /\ edit_tasks[1].updated_at >= 3
    /\ pending_edits = 0

\* ------------------------------------------------------------------- C15

\* C15: no step removes a log; a closed log is never changed again, not even
\* by a return that read it while it was open, and the
\* only change an open log sees is its returned_at being set; a successful
\* checkout appends a new open log for its card and touches no other log.
C15_LogsAppendOnly ==
    [][/\ Len(sd_card_logs') >= Len(sd_card_logs)
       /\ \A l \in 1..Len(sd_card_logs) :
             /\ sd_card_logs[l].returned_at # None
                => sd_card_logs'[l] = sd_card_logs[l]
             /\ \/ sd_card_logs'[l] = sd_card_logs[l]
                \/ /\ sd_card_logs'[l].returned_at # None
                   /\ sd_card_logs'[l] =
                         [sd_card_logs[l] EXCEPT
                             !.returned_at = sd_card_logs'[l].returned_at]
       /\ (Handled("sd_cards_view", "checkout")
             /\ response' = Flash("SD card checked out", "success"))
          => /\ Len(sd_card_logs') = Len(sd_card_logs) + 1
             /\ SubSeq(sd_card_logs', 1, Len(sd_card_logs)) = sd_card_logs
             /\ sd_card_logs'[Len(sd_card_logs')].returned_at = None
             /\ sd_card_logs'[Len(sd_card_logs')].sd_card_id
                   = Get(sd_cards, request'.id)]_vars


====
